---- MODULE Spec2Model ----
(***************************************************************************)
(* BrickBridge: the host-side NXT command/response engine (class Nxt) and  *)
(* its USB transport (class NxtUsbCommunication).                          *)
(*                                                                         *)
(* JavaScript runs the async methods of Nxt on one thread; a method is     *)
(* suspended only at `await`.  Each action below is one run of a caller    *)
(* between two suspensions at the transport: the code up to and including  *)
(* a transferOut (a *Send action) or the code resumed by a transferIn      *)
(* (a *Recv action).  Strings are sequences of UTF-16 code units, byte     *)
(* arrays are sequences of numbers 0..255.                                 *)
(***************************************************************************)
EXTENDS Integers, Sequences, FiniteSets, TLC

\* ------------------------------------------------------------- bounds
\* public operations invoked in one behaviour
MaxCalls == 3
\* file contents reach MaxChunks full packets plus one byte
MaxChunks == 2
\* directory entries the brick reports in one enumeration
MaxFiles == 2

\* ---------------------------------------------------------- constants
packetChunkSize == 64
Stride == packetChunkSize - 3

StatusNoProgram == 236
StatusNotFound == 135
\* the value JavaScript gives a property that was never set (error.statusCode)
NoStatusCode == 0 - 1

\* ------------------------------------------------------------ strings
ExtRxe == <<46, 114, 120, 101>>                                   \* ".rxe"
TargetName == <<85, 110, 116, 105, 116, 108, 101, 100, 49, 46, 114, 120, 101>>  \* "Untitled1.rxe"
TargetSize == 244
Wildcard == <<42, 46, 42>>                                        \* "*.*"
expectedHeader == <<77, 105, 110, 100, 115, 116, 111, 114, 109, 115, 78, 88, 84>>

Min(a, b) == IF a <= b THEN a ELSE b

\* String.prototype.toLowerCase on the ASCII letters
toLowerCase(s) == [k \in 1..Len(s) |-> IF s[k] >= 65 /\ s[k] <= 90 THEN s[k] + 32 ELSE s[k]]

\* String.prototype.endsWith
endsWith(s, suffix) ==
    /\ Len(s) >= Len(suffix)
    /\ SubSeq(s, Len(s) - Len(suffix) + 1, Len(s)) = suffix

\* new Uint8Array(width) followed by .set(codes): code units are stored modulo
\* 256 into a zero-filled array (the caller has excluded Len(codes) > width,
\* where .set throws RangeError)
PadTo(codes, width) ==
    [k \in 1..width |-> IF k <= Len(codes) THEN codes[k] % 256 ELSE 0]

\* data[i] of a response packet.  An index past the packet's end reads
\* undefined, which the uses in the source (| and <<, != 1, an element of a
\* Uint8Array literal, String.fromCharCode after the NUL removal) treat as 0
Byte(data, i) == IF i + 1 <= Len(data) THEN data[i + 1] ELSE 0

\* data.slice(from, to) of a response buffer (to <= 64)
ResponseSlice(data, from, to) == [k \in 1..(to - from) |-> Byte(data, from + k - 1)]

\* Uint8Array.prototype.slice(from, to) of file data: clamped at the length
slice(data, from, to) == SubSeq(data, from + 1, Min(to, Len(data)))

\* String.fromCharCode(...bytes).replace(/\u0000/g, "")
StripNul(bytes) == SelectSeq(bytes, LAMBDA c : c # 0)

\* b0 | (b1 << 8) | (b2 << 16) | (b3 << 24): a signed 32-bit integer
Or32(b0, b1, b2, b3) ==
    b0 + 256 * b1 + 65536 * b2 + 16777216 * (IF b3 >= 128 THEN b3 - 256 ELSE b3)

\* [size & 0xff, (size >> 8) & 0xff, (size >> 16) & 0xff, (size >> 24) & 0xff]
sizeArray(size) ==
    <<size % 256, (size \div 256) % 256, (size \div 65536) % 256,
      (size \div 16777216) % 256>>

\* ----------------------------------------------------------- commands
CmdGetFirmwareVersion == <<1, 136>>
CmdGetDeviceInfo == <<1, 155>>
CmdSetBrickName(nameArray) == <<1, 152>> \o nameArray
CmdOpenLinearWrite(name, size) == <<1, 137>> \o PadTo(name, 20) \o sizeArray(size)
CmdWrite(handle, chunk, requireResponse) ==
    <<IF requireResponse THEN 1 ELSE 129, 131, handle>> \o chunk
CmdClose(handle) == <<1, 132, handle>>
CmdStopProgram == <<0, 1>>
CmdFindFirst == <<1, 134>> \o PadTo(Wildcard, 20)
CmdFindNext(handle) == <<1, 135, handle>>
CmdDelete(fileNameArray) == <<1, 133>> \o fileNameArray

OpClass(cmd) == cmd[1]
OpCode(cmd) == cmd[2]
\* opcode classes 0x00 and 0x01 make the brick answer, 0x80 and 0x81 do not
NeedsReply(cmd) == OpClass(cmd) \in {0, 1}

\* ------------------------------------------------------------- inputs
Letters(n) == [k \in 1..n |-> 96 + k]                             \* "abc..."
NameRobot == <<82, 111, 98, 111, 116>>                            \* "Robot"
NameARxe == <<97>> \o ExtRxe                                      \* "a.rxe"

\* names given to setBrickName: empty, short, exactly 15, 16, one holding a
\* NUL character, one holding a code unit above 255 (U+20AC)
BrickNames ==
    {<<>>, NameRobot, Letters(15), Letters(16), <<97, 0, 98>>, <<8364>>}

\* names given to deleteFile: one that fits the 20-byte field, one of 21
DeleteNames == {NameARxe, Letters(21)}

\* a File object; present = FALSE is the absent file (null / undefined)
File(name, content) == [present |-> TRUE, name |-> name, content |-> content]
NoFile == [present |-> FALSE, name |-> <<>>, content |-> <<>>]

\* content of n bytes that starts with (a prefix of) the executable header
HeaderContent(n) ==
    [k \in 1..n |-> IF k <= Len(expectedHeader) THEN expectedHeader[k] ELSE (7 * k) % 256]
\* content of n bytes whose byte at position `at` differs from the header
OtherContent(n, at) ==
    [k \in 1..n |-> IF k = at THEN 85 ELSE HeaderContent(n)[k]]

\* content lengths around the multiples of the 61-byte stride
StrideLens == {k * Stride + d : k \in 1..MaxChunks, d \in {0 - 1, 0, 1}}

Files ==
    {File(NameARxe, HeaderContent(n)) : n \in {0, 4, 13} \cup StrideLens}
    \cup {File(NameARxe, OtherContent(n, 13)) : n \in {13, Stride + 1}}
    \cup {File(NameARxe, OtherContent(4, 1)),
          File(<<65, 46, 82, 88, 69>>, HeaderContent(16)),        \* "A.RXE"
          File(<<97, 46, 116, 120, 116>>, HeaderContent(16)),     \* "a.txt"
          File(Letters(17) \o ExtRxe, HeaderContent(16))}

ConnectionTypes == {"usb", "bluetooth", "serial"}

\* ---------------------------------------------------------- the brick
\* The brick is the environment.  It answers every response-required
\* command with one packet [0x02, opcode, status, payload...], in the
\* layouts the source documents beside each receiveData() call.
Statuses == {0, StatusNotFound, StatusNoProgram, 189}
Handles == {0, 3}
FirmwareVersions == {<<4, 1, 31, 1>>, <<4, 1, 5, 2>>}
BtAddress == <<0, 22, 83, 170, 187, 204, 0>>
SignalStrengths == {<<10, 0, 0, 0>>}
FreeFlash == {<<0, 64, 0, 0>>, <<0, 0, 0, 128>>}
FileEntries ==
    {PadTo(NameARxe, 20) \o <<244, 0, 0, 0>>,
     Letters(20) \o <<0, 0, 1, 128>>}
InitialBrickName == PadTo(<<78, 88, 84>>, 15)                      \* "NXT"

Reply(cmd, status, payload) == <<2, OpCode(cmd), status>> \o payload

\* the packets the brick may answer `cmd` with, given its stored name and the
\* number of entries its running enumeration has reported
DeviceReplies(cmd, storedName, count) ==
    CASE OpClass(cmd) = 0 ->
           {Reply(cmd, s, <<>>) : s \in Statuses}
      [] OpCode(cmd) = 136 ->
           {Reply(cmd, s, v) : s \in Statuses, v \in FirmwareVersions}
      [] OpCode(cmd) = 155 ->
           {Reply(cmd, s, storedName \o BtAddress \o sig \o free) :
                s \in Statuses, sig \in SignalStrengths, free \in FreeFlash}
      [] OpCode(cmd) = 152 ->
           {Reply(cmd, s, <<>>) : s \in Statuses}
      [] OpCode(cmd) = 137 ->
           {Reply(cmd, s, <<h>>) : s \in Statuses, h \in Handles}
      [] OpCode(cmd) = 131 ->
           {Reply(cmd, s, <<cmd[3], (Len(cmd) - 3) % 256, 0>>) : s \in Statuses}
      [] OpCode(cmd) = 132 ->
           {Reply(cmd, s, <<cmd[3]>>) : s \in Statuses}
      [] OpCode(cmd) = 133 ->
           {Reply(cmd, s, SubSeq(cmd, 3, Len(cmd))) : s \in Statuses}
      [] OpCode(cmd) = 134 ->
           {Reply(cmd, s, <<h>> \o e) : s \in Statuses, h \in Handles, e \in FileEntries}
      [] OpCode(cmd) = 135 ->
           {Reply(cmd, s, <<cmd[3]>> \o e) :
                s \in IF count < MaxFiles THEN Statuses ELSE Statuses \ {0},
                e \in FileEntries}
      [] OTHER -> {Reply(cmd, 189, <<>>)}

\* the name the brick stores after answering `cmd` with `reply`
DeviceName(cmd, reply, storedName) ==
    IF OpClass(cmd) = 1 /\ OpCode(cmd) = 152 /\ Byte(reply, 2) = 0
    THEN SubSeq(cmd, 3, 17)
    ELSE storedName

\* the number of entries reported by the enumeration after `cmd`, `reply`
DeviceReported(cmd, reply, count) ==
    CASE OpClass(cmd) = 1 /\ OpCode(cmd) = 134 -> IF Byte(reply, 2) = 0 THEN 1 ELSE 0
      [] OpClass(cmd) = 1 /\ OpCode(cmd) = 135 /\ Byte(reply, 2) = 0 -> count + 1
      [] OpClass(cmd) = 1 /\ OpCode(cmd) = 132 -> 0
      [] OTHER -> count

\* -------------------------------------------------------------- state
VARIABLES
    connectedDevice,   \* Nxt.connectedDevice: "undefined" or "usb"
    usbDevice,         \* NxtUsbCommunication.device: "null", "unopened", "ready", "unplugged"
    inbox,             \* replies waiting at the IN endpoint, oldest first
    brickName,         \* brick: the stored 15-byte name
    reported,          \* brick: entries reported by the running enumeration
    proc,              \* per caller: the operation it runs and its locals
    calls,             \* public operations invoked so far
    callers            \* the callers that invoke operations

vars == <<connectedDevice, usbDevice, inbox, brickName, reported, proc, calls, callers>>

Callers == {1, 2}

NoOutcome == [kind |-> "none", error |-> "", statusCode |-> NoStatusCode, value |-> <<>>]
Returned(v) == [kind |-> "return", error |-> "", statusCode |-> NoStatusCode, value |-> v]
\* new Error(message), optionally with error.statusCode set
Thrown(error, statusCode) ==
    [kind |-> "throw", error |-> error, statusCode |-> statusCode, value |-> <<>>]

\* a caller that runs nothing
Idle ==
    [op |-> "none", fn |-> "none", via |-> "none", pc |-> "idle",
     name |-> <<>>, file |-> NoFile, stopProgram |-> FALSE,
     handle |-> 0, files |-> <<>>, i |-> 0, response |-> <<>>, hasResponse |-> FALSE,
     sent |-> <<>>, received |-> 0, last |-> <<>>, outcome |-> NoOutcome]

InitState ==
    /\ connectedDevice = "undefined"
    /\ usbDevice = "null"
    /\ inbox = <<>>
    /\ brickName = InitialBrickName
    /\ reported = 0
    /\ proc = [p \in Callers |-> Idle]
    /\ calls = 0

\* one caller, who waits for each operation to end before the next
Init == InitState /\ callers = {1}

\* ------------------------------------------------- control flow of Nxt
\* These operators take a caller's record `c` and give the record after the
\* code has run on to its next transport call or to its end.  `cd` is the
\* value of this.connectedDevice.

Uploads == {"uploadFile", "uploadProgram"}

Return(c, v) == [c EXCEPT !.pc = "done", !.outcome = Returned(v)]
\* the error leaves the public operation
Throw(c, error, statusCode) ==
    [c EXCEPT !.pc = "done", !.outcome = Thrown(error, statusCode)]

\* the common prologue of setBrickName, stopProgram, listFiles, deleteFile and
\* uploadFile: the connectedDevice test, then the call of checkConnection
EnterGated(c, fn, cd) ==
    IF cd = "undefined"
    THEN Throw(c, "NotConnected", NoStatusCode)
    ELSE [c EXCEPT !.fn = fn, !.via = "check", !.pc = "gfv_send"]

\* uploadFile: await this.deleteFile(file.name)
CallDeleteFile(c, cd) == EnterGated([c EXCEPT !.name = c.file.name], "deleteFile", cd)

\* uploadFile's catch around deleteFile: every statusCode but 135 is thrown on
CatchDelete(c, error, statusCode) ==
    IF statusCode # StatusNotFound
    THEN Throw(c, error, statusCode)
    ELSE [c EXCEPT !.fn = "uploadFile", !.pc = "open_send"]

\* mutant of CatchStop: every error that carries a statusCode is absorbed
CatchStop_AnyStatus(c, error, statusCode, cd) ==
    IF statusCode = NoStatusCode
    THEN Throw(c, error, statusCode)
    ELSE CallDeleteFile(c, cd)

\* uploadFile's catch around stopProgram: every statusCode but 236 is thrown on
CatchStop(c, error, statusCode, cd) ==
    IF statusCode # StatusNoProgram
    THEN Throw(c, error, statusCode)
    ELSE CallDeleteFile(c, cd)

\* an error thrown in function c.fn: caught by uploadFile's two try blocks
\* when c.fn was called from there, else it leaves the public operation
Raise(c, error, statusCode, cd) ==
    IF c.op \in Uploads /\ c.fn = "stopProgram" THEN CatchStop(c, error, statusCode, cd)
    ELSE IF c.op \in Uploads /\ c.fn = "deleteFile" THEN CatchDelete(c, error, statusCode)
    ELSE Throw(c, error, statusCode)

\* mutant of NameTooLong: the limit off by one
NameTooLong_OffByOne(name) == Len(name) > 16

\* setBrickName: name.length > 15
NameTooLong(name) == Len(name) > 15

\* checkConnection returned true to c.fn
AfterCheckConnection(c, cd) ==
    CASE c.fn = "checkConnection" -> Return(c, TRUE)
      [] c.fn = "setBrickName" ->
           IF NameTooLong(c.name)
           THEN Raise(c, "NameTooLong", NoStatusCode, cd)
           ELSE [c EXCEPT !.pc = "name_send"]
      [] c.fn = "stopProgram" -> [c EXCEPT !.pc = "stop_send"]
      [] c.fn = "listFiles" -> [c EXCEPT !.pc = "ff_send", !.files = <<>>]
      [] c.fn = "deleteFile" ->
           \* fileNameArray.set throws RangeError on more than 20 code units
           IF Len(c.name) > 20
           THEN Raise(c, "RangeError", NoStatusCode, cd)
           ELSE [c EXCEPT !.pc = "del_send"]
      [] c.fn = "uploadFile" ->
           IF ~c.file.present
           THEN Raise(c, "NoFileSelected", NoStatusCode, cd)
           ELSE [c EXCEPT !.via = "direct", !.pc = "gfv_send"]
      [] OTHER -> c

\* checkConnection returned false to c.fn
CheckConnectionFailed(c, cd) ==
    IF c.fn = "checkConnection"
    THEN Return(c, FALSE)
    ELSE Raise(c, "NotConnected", NoStatusCode, cd)

\* mutant of AfterFirmware: the protocol's major version is tested
AfterFirmware_ProtocolVersion(c, version, cd) ==
    IF version.majorProtocol # 1
    THEN Raise(c, "UnsupportedFirmware", NoStatusCode, cd)
    ELSE IF c.stopProgram
         THEN EnterGated(c, "stopProgram", cd)
         ELSE CallDeleteFile(c, cd)

\* uploadFile after its own getFirmwareVersion()
AfterFirmware(c, version, cd) ==
    IF version.majorFirmware # 1
    THEN Raise(c, "UnsupportedFirmware", NoStatusCode, cd)
    ELSE IF c.stopProgram
         THEN EnterGated(c, "stopProgram", cd)
         ELSE CallDeleteFile(c, cd)

\* mutant of GfvThrow: checkConnection without its catch
GfvThrow_Uncaught(c, error, cd) == Raise(c, error, NoStatusCode, cd)

\* getFirmwareVersion threw `error`
GfvThrow(c, error, cd) ==
    IF c.via = "check"
    THEN CheckConnectionFailed(c, cd)
    ELSE Raise(c, error, NoStatusCode, cd)

\* the object getFirmwareVersion builds from a response
FirmwareVersion(data) ==
    [minorProtocol |-> Byte(data, 3), majorProtocol |-> Byte(data, 4),
     minorFirmware |-> Byte(data, 5), majorFirmware |-> Byte(data, 6)]

\* getFirmwareVersion returned
GfvReturn(c, data, cd) ==
    IF c.via = "check"
    THEN AfterCheckConnection(c, cd)
    ELSE IF c.fn = "uploadFile"
         THEN AfterFirmware(c, FirmwareVersion(data), cd)
         ELSE Return(c, FirmwareVersion(data))

\* the object getDeviceInfo builds from a response
DeviceInfo(data) ==
    [nxtName |-> StripNul(ResponseSlice(data, 3, 18)),
     btAddress |-> ResponseSlice(data, 18, 24),
     btSignalStrength |-> Or32(Byte(data, 25), Byte(data, 26), Byte(data, 27), Byte(data, 28)),
     freeUserFlash |-> Or32(Byte(data, 29), Byte(data, 30), Byte(data, 31), Byte(data, 32))]

\* setBrickName after its response
AfterSetBrickName(c, data, cd) ==
    IF Byte(data, 2) # 0
    THEN Raise(c, "SetNameFailed", NoStatusCode, cd)
    ELSE Return(c, <<>>)

\* mutant of AfterStopProgram: the error is thrown without error.statusCode
AfterStopProgram_NoStatusCode(c, data, cd) ==
    IF Byte(data, 2) # 0
    THEN Raise(c, "StopFailed", NoStatusCode, cd)
    ELSE IF c.op \in Uploads THEN CallDeleteFile(c, cd) ELSE Return(c, <<>>)

\* stopProgram after its response
AfterStopProgram(c, data, cd) ==
    IF Byte(data, 2) # 0
    THEN Raise(c, "StopFailed", Byte(data, 2), cd)
    ELSE IF c.op \in Uploads THEN CallDeleteFile(c, cd) ELSE Return(c, <<>>)

\* deleteFile after its response
AfterDeleteFile(c, data, cd) ==
    IF Byte(data, 2) # 0
    THEN Raise(c, "DeleteFailed", Byte(data, 2), cd)
    ELSE IF c.op \in Uploads
         THEN [c EXCEPT !.fn = "uploadFile", !.pc = "open_send"]
         ELSE Return(c, <<>>)

\* uploadFile after its write loop: response[2] of an unset response throws
\* TypeError
AfterWriteLoop(c, cd) ==
    IF ~c.hasResponse
    THEN Raise(c, "TypeError", NoStatusCode, cd)
    ELSE IF Byte(c.response, 2) # 0
         THEN Raise(c, "UploadFailed", NoStatusCode, cd)
         ELSE [c EXCEPT !.pc = "upclose_send"]

\* mutant of Chunk: the slice one byte shorter than the loop's stride
Chunk_ShortSlice(c) == slice(c.file.content, c.i, c.i + packetChunkSize - 4)

\* mutant of IsLastChunk: a chunk that ends exactly at the end is not the last
IsLastChunk_Strict(c) == c.i + packetChunkSize - 3 > Len(c.file.content)

\* the chunk of one iteration and whether it is the last
Chunk(c) == slice(c.file.content, c.i, c.i + packetChunkSize - 3)
IsLastChunk(c) == c.i + packetChunkSize - 3 >= Len(c.file.content)

\* the head of uploadFile's for loop, with the loop variable at c.i; in the
\* body, _write refuses a chunk of more than 64 - 3 bytes before it sends
WriteLoop(c, cd) ==
    IF c.i < Len(c.file.content)
    THEN IF Len(Chunk(c)) > 64 - 3
         THEN Raise(c, "DataTooLong", NoStatusCode, cd)
         ELSE [c EXCEPT !.pc = "write_send"]
    ELSE AfterWriteLoop(c, cd)

\* _openLinearWrite after its response, and uploadFile on to its loop
AfterOpenLinearWrite(c, data, cd) ==
    IF Byte(data, 2) # 0
    THEN Raise(c, "OpenFailed", NoStatusCode, cd)
    ELSE WriteLoop([c EXCEPT !.handle = Byte(data, 3), !.i = 0,
                             !.response = <<>>, !.hasResponse = FALSE], cd)

\* _write without a response: it returns undefined, and the loop goes on
AfterWriteNoResponse(c, cd) ==
    WriteLoop([c EXCEPT !.response = <<>>, !.hasResponse = FALSE,
                        !.i = c.i + packetChunkSize - 3], cd)

\* _write after its response, and the loop goes on
AfterWrite(c, data, cd) ==
    IF Byte(data, 2) # 0
    THEN Raise(c, "WriteFailed", NoStatusCode, cd)
    ELSE WriteLoop([c EXCEPT !.response = data, !.hasResponse = TRUE,
                             !.i = c.i + packetChunkSize - 3], cd)

\* _handleFindReturnPacket
handleFindReturnPacket(data) ==
    [handle |-> Byte(data, 3),
     name |-> StripNul(ResponseSlice(data, 4, 23)),
     fileSize |-> Or32(Byte(data, 24), Byte(data, 25), Byte(data, 26), Byte(data, 27))]

\* files.push({ name: fileInfo.name, size: fileInfo.fileSize })
PushFile(files, data) ==
    Append(files, [name |-> handleFindReturnPacket(data).name,
                   size |-> handleFindReturnPacket(data).fileSize])

\* listFiles after the find-first response
AfterFindFirst(c, data) ==
    [c EXCEPT !.handle = handleFindReturnPacket(data).handle,
              !.files = PushFile(c.files, data),
              !.pc = "fn_send"]

\* mutant of AfterFindNext: an entry is read but not pushed
AfterFindNext_SkipsEntry(c, data) ==
    IF Byte(data, 2) = 0
    THEN [c EXCEPT !.pc = "fn_send"]
    ELSE [c EXCEPT !.pc = "lsclose_send"]

\* mutant of AfterFindNext: lastFile is set after the first find-next
AfterFindNext_StopsAfterOne(c, data) ==
    IF Byte(data, 2) = 0
    THEN [c EXCEPT !.files = PushFile(c.files, data), !.pc = "lsclose_send"]
    ELSE [c EXCEPT !.pc = "lsclose_send"]

\* listFiles after a find-next response
AfterFindNext(c, data) ==
    IF Byte(data, 2) = 0
    THEN [c EXCEPT !.files = PushFile(c.files, data), !.pc = "fn_send"]
    ELSE [c EXCEPT !.pc = "lsclose_send"]

\* listFiles after the close response
AfterListClose(c, data, cd) ==
    IF Byte(data, 2) # 0
    THEN Raise(c, "CloseFailed", NoStatusCode, cd)
    ELSE Return(c, c.files)

\* header.every((value, index) => value === expectedHeader[index]) over the
\* bytes of file.slice(0, 13)
HeaderMatches(content) ==
    \A k \in 1..Len(slice(content, 0, Len(expectedHeader))) :
        slice(content, 0, Len(expectedHeader))[k] = expectedHeader[k]

\* uploadFile(file, stopProgram) from its first line
EnterUploadFile(c, file, stopFlag, cd) ==
    EnterGated([c EXCEPT !.file = file, !.stopProgram = stopFlag], "uploadFile", cd)

\* uploadProgram(file) from its first line
EnterUploadProgram(c, file, cd) ==
    IF ~file.present
    THEN Throw(c, "NoFileSelected", NoStatusCode)
    ELSE IF ~endsWith(toLowerCase(file.name), ExtRxe)
         THEN Throw(c, "InvalidExtension", NoStatusCode)
         ELSE IF ~HeaderMatches(file.content)
              THEN Throw(c, "InvalidFormat", NoStatusCode)
              ELSE EnterUploadFile(c, file, TRUE, cd)

\* ---------------------------------------------------------- transport
\* NxtUsbCommunication.sendCommand runs to its end: transferOut hands the
\* command to the brick, which queues its answer at the IN endpoint
sendCommand(cmd) ==
    /\ usbDevice = "ready"
    /\ IF NeedsReply(cmd)
       THEN \E r \in DeviceReplies(cmd, brickName, reported) :
               /\ inbox' = Append(inbox, r)
               /\ brickName' = DeviceName(cmd, r, brickName)
               /\ reported' = DeviceReported(cmd, r, reported)
       ELSE UNCHANGED <<inbox, brickName, reported>>

\* what sendCommand / receiveData throw when the transfer cannot be made:
\* Error("No device connected") without a device, else the rejection of
\* transferOut / transferIn
TransferError == IF usbDevice = "null" THEN "NotConnected" ELSE "TransportError"

\* the command is out: log it and go on at `next`
Sent(c, cmd, next) == [c EXCEPT !.sent = Append(@, cmd), !.pc = next]
\* receiveData returned `data`: count it and keep it as the caller's latest
Received(c, data) == [c EXCEPT !.received = @ + 1, !.last = data]

\* the frame of a *Send action: `after` is the caller once the command is out
SendStep(p, at, cmd, after) ==
    /\ proc[p].pc = at
    /\ \/ /\ sendCommand(cmd)
          /\ proc' = [proc EXCEPT ![p] = after]
       \/ /\ usbDevice # "ready"
          /\ proc' = [proc EXCEPT ![p] =
                 IF at = "gfv_send"
                 THEN GfvThrow(@, TransferError, connectedDevice)
                 ELSE Raise(@, TransferError, NoStatusCode, connectedDevice)]
          /\ UNCHANGED <<inbox, brickName, reported>>
    /\ UNCHANGED <<connectedDevice, usbDevice, calls, callers>>

\* the packet transferIn(2, 64) resolves with: the oldest one waiting
Oldest == IF inbox = <<>> THEN <<>> ELSE Head(inbox)
\* caller p once receiveData has returned that packet
Arrived(p) == Received(proc[p], Oldest)

\* the frame of a *Recv action: `after` is the caller once receiveData has
\* returned the oldest waiting packet and the code has run on
RecvStep(p, at, after) ==
    /\ proc[p].pc = at
    /\ \/ /\ usbDevice = "ready"
          /\ inbox # <<>>
          /\ inbox' = Tail(inbox)
          /\ proc' = [proc EXCEPT ![p] = after]
       \/ /\ usbDevice # "ready"
          /\ proc' = [proc EXCEPT ![p] =
                 IF at = "gfv_recv"
                 THEN GfvThrow(@, TransferError, connectedDevice)
                 ELSE Raise(@, TransferError, NoStatusCode, connectedDevice)]
          /\ UNCHANGED inbox
    /\ UNCHANGED <<connectedDevice, usbDevice, brickName, reported, calls, callers>>

\* ------------------------------------------------------------ actions
\* a caller may invoke a public operation when it runs none
CanStart(p) ==
    /\ p \in callers
    /\ proc[p].pc \in {"idle", "done"}
    /\ calls < MaxCalls

Fresh(op) == [Idle EXCEPT !.op = op, !.fn = op, !.pc = "start"]

\* the frame of a Start action that touches no transport
StartStep(p, c) ==
    /\ CanStart(p)
    /\ proc' = [proc EXCEPT ![p] = c]
    /\ calls' = calls + 1
    /\ UNCHANGED <<connectedDevice, usbDevice, inbox, brickName, reported, callers>>

\* connect(type) up to await this.connectedDevice.connect()
StartConnect(p, type) ==
    /\ CanStart(p)
    /\ calls' = calls + 1
    /\ IF type = "usb"
       THEN /\ connectedDevice' = "usb"
            /\ usbDevice' = "null"
            /\ proc' = [proc EXCEPT ![p] = [Fresh("connect") EXCEPT !.pc = "conn"]]
       ELSE /\ proc' = [proc EXCEPT ![p] =
                   Throw(Fresh("connect"),
                         IF type = "bluetooth" THEN "NotImplemented" ELSE "InvalidType",
                         NoStatusCode)]
            /\ UNCHANGED <<connectedDevice, usbDevice>>
    /\ UNCHANGED <<inbox, brickName, reported, callers>>

\* NxtUsbCommunication.connect: requestDevice is refused, or a device is
\* chosen and open / selectConfiguration / claimInterface fails, or all succeed
ConnectFinish(p) ==
    /\ proc[p].pc = "conn"
    /\ \/ /\ proc' = [proc EXCEPT ![p] = Throw(@, "TransportError", NoStatusCode)]
          /\ UNCHANGED usbDevice
       \/ /\ proc' = [proc EXCEPT ![p] = Throw(@, "TransportError", NoStatusCode)]
          /\ usbDevice' = "unopened"
       \/ /\ proc' = [proc EXCEPT ![p] = Return(@, <<>>)]
          /\ usbDevice' = "ready"
    /\ UNCHANGED <<connectedDevice, inbox, brickName, reported, calls, callers>>

\* the cable is pulled: every later transfer is rejected, what waited is lost
Unplug ==
    /\ usbDevice = "ready"
    /\ usbDevice' = "unplugged"
    /\ inbox' = <<>>
    /\ reported' = 0
    /\ UNCHANGED <<connectedDevice, brickName, proc, calls, callers>>

StartGetFirmwareVersion(p) ==
    StartStep(p, IF connectedDevice = "undefined"
                 THEN Throw(Fresh("getFirmwareVersion"), "NotConnected", NoStatusCode)
                 ELSE [Fresh("getFirmwareVersion") EXCEPT !.via = "direct", !.pc = "gfv_send"])

StartCheckConnection(p) ==
    StartStep(p, IF connectedDevice = "undefined"
                 THEN Return(Fresh("checkConnection"), FALSE)
                 ELSE [Fresh("checkConnection") EXCEPT !.via = "check", !.pc = "gfv_send"])

StartGetDeviceInfo(p) ==
    StartStep(p, IF connectedDevice = "undefined"
                 THEN Throw(Fresh("getDeviceInfo"), "NotConnected", NoStatusCode)
                 ELSE [Fresh("getDeviceInfo") EXCEPT !.pc = "info_send"])

StartSetBrickName(p, name) ==
    StartStep(p, EnterGated([Fresh("setBrickName") EXCEPT !.name = name],
                            "setBrickName", connectedDevice))

StartStopProgram(p) ==
    StartStep(p, EnterGated(Fresh("stopProgram"), "stopProgram", connectedDevice))

StartListFiles(p) ==
    StartStep(p, EnterGated(Fresh("listFiles"), "listFiles", connectedDevice))

StartDeleteFile(p, fileName) ==
    StartStep(p, EnterGated([Fresh("deleteFile") EXCEPT !.name = fileName],
                            "deleteFile", connectedDevice))

StartUploadFile(p, file, stopFlag) ==
    StartStep(p, EnterUploadFile(Fresh("uploadFile"), file, stopFlag, connectedDevice))

StartUploadProgram(p, file) ==
    StartStep(p, EnterUploadProgram(Fresh("uploadProgram"), file, connectedDevice))

\* getFirmwareVersion: sendCommand([0x01, 0x88])
GfvSend(p) ==
    SendStep(p, "gfv_send", CmdGetFirmwareVersion,
             Sent(proc[p], CmdGetFirmwareVersion, "gfv_recv"))

\* getFirmwareVersion: receiveData, and the callers of it run on
GfvRecv(p) ==
    RecvStep(p, "gfv_recv", GfvReturn(Arrived(p), Oldest, connectedDevice))

InfoSend(p) ==
    SendStep(p, "info_send", CmdGetDeviceInfo, Sent(proc[p], CmdGetDeviceInfo, "info_recv"))

InfoRecv(p) ==
    RecvStep(p, "info_recv", Return(Arrived(p), DeviceInfo(Oldest)))

NameSend(p) ==
    SendStep(p, "name_send", CmdSetBrickName(PadTo(proc[p].name, 15)),
             Sent(proc[p], CmdSetBrickName(PadTo(proc[p].name, 15)), "name_recv"))

NameRecv(p) ==
    RecvStep(p, "name_recv", AfterSetBrickName(Arrived(p), Oldest, connectedDevice))

StopSend(p) ==
    SendStep(p, "stop_send", CmdStopProgram, Sent(proc[p], CmdStopProgram, "stop_recv"))

StopRecv(p) ==
    RecvStep(p, "stop_recv", AfterStopProgram(Arrived(p), Oldest, connectedDevice))

DeleteSend(p) ==
    SendStep(p, "del_send", CmdDelete(PadTo(proc[p].name, 20)),
             Sent(proc[p], CmdDelete(PadTo(proc[p].name, 20)), "del_recv"))

DeleteRecv(p) ==
    RecvStep(p, "del_recv", AfterDeleteFile(Arrived(p), Oldest, connectedDevice))

\* _openLinearWrite("Untitled1.rxe", 244)
OpenSend(p) ==
    SendStep(p, "open_send", CmdOpenLinearWrite(TargetName, TargetSize),
             Sent(proc[p], CmdOpenLinearWrite(TargetName, TargetSize), "open_recv"))

OpenRecv(p) ==
    RecvStep(p, "open_recv", AfterOpenLinearWrite(Arrived(p), Oldest, connectedDevice))

\* the command _write sends for the chunk at c.i
WriteCmd(c) == CmdWrite(c.handle, Chunk(c), IsLastChunk(c))

\* _write: the send; without requireResponse the loop runs on at once
WriteSend(p) ==
    SendStep(p, "write_send", WriteCmd(proc[p]),
             IF IsLastChunk(proc[p])
             THEN Sent(proc[p], WriteCmd(proc[p]), "write_recv")
             ELSE AfterWriteNoResponse(Sent(proc[p], WriteCmd(proc[p]), "write_send"),
                                       connectedDevice))

WriteRecv(p) ==
    RecvStep(p, "write_recv", AfterWrite(Arrived(p), Oldest, connectedDevice))

\* uploadFile: the close command, after which uploadFile returns
UploadCloseSend(p) ==
    SendStep(p, "upclose_send", CmdClose(proc[p].handle),
             Return(Sent(proc[p], CmdClose(proc[p].handle), "done"), <<>>))

FindFirstSend(p) ==
    SendStep(p, "ff_send", CmdFindFirst, Sent(proc[p], CmdFindFirst, "ff_recv"))

FindFirstRecv(p) ==
    RecvStep(p, "ff_recv", AfterFindFirst(Arrived(p), Oldest))

FindNextSend(p) ==
    SendStep(p, "fn_send", CmdFindNext(proc[p].handle),
             Sent(proc[p], CmdFindNext(proc[p].handle), "fn_recv"))

FindNextRecv(p) ==
    RecvStep(p, "fn_recv", AfterFindNext(Arrived(p), Oldest))

ListCloseSend(p) ==
    SendStep(p, "lsclose_send", CmdClose(proc[p].handle),
             Sent(proc[p], CmdClose(proc[p].handle), "lsclose_recv"))

ListCloseRecv(p) ==
    RecvStep(p, "lsclose_recv", AfterListClose(Arrived(p), Oldest, connectedDevice))

Step(p) ==
    \/ GfvSend(p) \/ GfvRecv(p)
    \/ InfoSend(p) \/ InfoRecv(p)
    \/ NameSend(p) \/ NameRecv(p)
    \/ StopSend(p) \/ StopRecv(p)
    \/ DeleteSend(p) \/ DeleteRecv(p)
    \/ OpenSend(p) \/ OpenRecv(p)
    \/ WriteSend(p) \/ WriteRecv(p)
    \/ UploadCloseSend(p)
    \/ FindFirstSend(p) \/ FindFirstRecv(p)
    \/ FindNextSend(p) \/ FindNextRecv(p)
    \/ ListCloseSend(p) \/ ListCloseRecv(p)

Start(p) ==
    \/ \E type \in ConnectionTypes : StartConnect(p, type)
    \/ StartGetFirmwareVersion(p)
    \/ StartCheckConnection(p)
    \/ StartGetDeviceInfo(p)
    \/ \E name \in BrickNames : StartSetBrickName(p, name)
    \/ StartStopProgram(p)
    \/ StartListFiles(p)
    \/ \E fileName \in DeleteNames : StartDeleteFile(p, fileName)
    \/ \E file \in Files \cup {NoFile}, stopFlag \in BOOLEAN : StartUploadFile(p, file, stopFlag)
    \/ \E file \in Files \cup {NoFile} : StartUploadProgram(p, file)

Next ==
    \/ \E p \in Callers : Start(p) \/ ConnectFinish(p) \/ Step(p)
    \/ Unplug

Spec == Init /\ [][Next]_vars

\* The event loop resumes an async method whenever the promise it awaits has
\* settled: a caller's enabled step is eventually taken.  (connect awaits
\* the user's choice in the browser's device chooser, which may never come.)
SpecLive == Init /\ [][Next]_vars /\ \A p \in Callers : WF_vars(Step(p))

\* Two event handlers on a connected session (the state a successful
\* connect("usb") leaves), each starting operations on its own
InitConc ==
    /\ connectedDevice = "usb"
    /\ usbDevice = "ready"
    /\ inbox = <<>>
    /\ brickName = InitialBrickName
    /\ reported = 0
    /\ proc = [p \in Callers |-> Idle]
    /\ calls = 0
    /\ callers = Callers

NextConc ==
    \E p \in Callers :
        \/ StartGetDeviceInfo(p)
        \/ StartSetBrickName(p, NameRobot)
        \/ StartStopProgram(p)
        \/ GfvSend(p) \/ GfvRecv(p)
        \/ InfoSend(p) \/ InfoRecv(p)
        \/ NameSend(p) \/ NameRecv(p)
        \/ StopSend(p) \/ StopRecv(p)

SpecConc == InitConc /\ [][NextConc]_vars

\* ===================================================== properties
RecvPoints ==
    {"gfv_recv", "info_recv", "name_recv", "stop_recv", "del_recv", "open_recv",
     "write_recv", "ff_recv", "fn_recv", "lsclose_recv"}

Running(c) == c.pc \notin {"idle", "done"}
Done(c) == c.pc = "done"
HasReturned(c) == c.pc = "done" /\ c.outcome.kind = "return"
HasThrown(c) == c.pc = "done" /\ c.outcome.kind = "throw"
Failed(c, error) == HasThrown(c) /\ c.outcome.error = error

\* the commands of a log that make the brick answer
Asked(log) == SelectSeq(log, NeedsReply)
\* the commands of a log with the given opcode class and opcode
Commands(log, class, code) ==
    SelectSeq(log, LAMBDA cmd : OpClass(cmd) = class /\ OpCode(cmd) = code)
\* the commands of a log with the given opcode, of either class
WithOpCode(log, code) == SelectSeq(log, LAMBDA cmd : OpCode(cmd) = code /\ OpClass(cmd) # 0)
Last(seq) == seq[Len(seq)]

\* checkConnection answered false: the probe's round trip failed
ProbeFailed(c) == c.op = "checkConnection" /\ HasReturned(c) /\ c.outcome.value = FALSE

\* ---------------------------------------------------------------- C1
\* C1: on one connection used by one caller at a time, every command of
\* class 0x00 / 0x01 is followed by exactly one receive before the next
\* command: a caller that is not waiting in a receive (and has not failed
\* on the transport) has received as often as it asked, no reply waits unread in the
\* transport, and the packet a receive returned mirrors the opcode of the
\* command that receive followed.
C1_OneReceivePerCommand ==
    \A p \in callers :
        LET c == proc[p] IN
        /\ (usbDevice = "ready" /\ ~Running(c)) => inbox = <<>>
        /\ (c.pc \notin RecvPoints /\ ~HasThrown(c) /\ ~ProbeFailed(c))
              => c.received = Len(Asked(c.sent))
        /\ (c.received > 0 /\ c.received = Len(Asked(c.sent)))
              => Byte(c.last, 1) = OpCode(Last(Asked(c.sent)))

\* ---------------------------------------------------------------- C2
\* a caller is on the connection from its first command to its end
OnConnection(p) == Running(proc[p]) /\ proc[p].sent # <<>>

\* C2: when operations are started concurrently on one Nxt, at most one of
\* them is on the connection at a time.
C2_Serialized == Cardinality({p \in callers : OnConnection(p)}) <= 1

\* ---------------------------------------------------------------- C3
\* C3 as stated: setBrickName (on a session that has a transport) with a
\* name of more than 15 characters sends no command at all and fails with
\* NameTooLong.
C3_LongNameSendsNothing ==
    \A p \in callers :
        LET c == proc[p] IN
        (c.op = "setBrickName" /\ Len(c.name) > 15 /\ connectedDevice = "usb")
            => /\ c.sent = <<>>
               /\ Done(c) => Failed(c, "NameTooLong")

\* C3 amended: setBrickName with a name of more than 15 characters never
\* sends the set-brick-name command; it sends at most the one
\* firmware-version probe of checkConnection and fails, with NameTooLong when
\* the probe's round trip completed and with NotConnected when it did not.
C3_LongNameNeverRenames ==
    \A p \in callers :
        LET c == proc[p] IN
        (c.op = "setBrickName" /\ Len(c.name) > 15)
            => /\ WithOpCode(c.sent, 152) = <<>>
               /\ c.sent \in {<<>>, <<CmdGetFirmwareVersion>>}
               /\ Done(c) => /\ HasThrown(c)
                             /\ c.received = 1 => c.outcome.error = "NameTooLong"
                             /\ c.received = 0 => c.outcome.error = "NotConnected"

C3_Witness ==
    \E p \in callers :
        /\ proc[p].op = "setBrickName"
        /\ Len(proc[p].name) > 15
        /\ Failed(proc[p], "NameTooLong")
        /\ proc[p].sent = <<CmdGetFirmwareVersion>>

\* ---------------------------------------------------------------- C4
StartsWithHeader(content) ==
    /\ Len(content) >= Len(expectedHeader)
    /\ SubSeq(content, 1, Len(expectedHeader)) = expectedHeader

\* C4: uploadProgram (on a session that has a transport) of a file whose
\* content does not begin with the 13 header bytes (shorter content
\* included) sends no command and fails with InvalidFormat, whatever the
\* file's extension.
C4_BadHeaderRejected ==
    \A p \in callers :
        LET c == proc[p] IN
        (c.op = "uploadProgram" /\ c.file.present /\ ~StartsWithHeader(c.file.content)
            /\ connectedDevice = "usb")
            => /\ c.sent = <<>>
               /\ Done(c)
               /\ HasThrown(c)
               /\ c.outcome.error \in {"InvalidFormat", "InvalidExtension"}

\* ---------------------------------------------------------------- C5
\* the FileInfo listFiles makes of a find response
FileInfo(data) ==
    [name |-> handleFindReturnPacket(data).name,
     size |-> handleFindReturnPacket(data).fileSize]
\* find-first and find-next commands sent so far
Finds(c) == Len(WithOpCode(c.sent, 134)) + Len(WithOpCode(c.sent, 135))
Closes(c) == WithOpCode(c.sent, 132)

\* in listFiles, the list holds one entry per find response read so far with
\* status 0 (the find-first response always), the newest last
C5_Listing(c) ==
    /\ Len(Closes(c)) <= 1
    /\ c.pc = "ff_recv" => c.files = <<>>
    /\ c.pc = "fn_send" => /\ Len(c.files) = Finds(c)
                           /\ Last(c.files) = FileInfo(c.last)
    /\ c.pc = "fn_recv" => Len(c.files) = Finds(c) - 1
    /\ c.pc = "lsclose_send" => /\ Byte(c.last, 2) # 0
                                /\ Len(c.files) = Finds(c) - 1
                                /\ Closes(c) = <<>>
    /\ (c.pc = "lsclose_recv" \/ HasReturned(c))
          => /\ Len(c.files) = Finds(c) - 1
             /\ Closes(c) = <<CmdClose(c.handle)>>
             /\ Last(c.sent) = CmdClose(c.handle)
    /\ HasReturned(c) => c.outcome.value = c.files

\* in listFiles, a step leaves the list as it is or appends one entry
C5_Appends(c, d) ==
    \/ d.files = c.files
    \/ /\ Len(d.files) = Len(c.files) + 1
       /\ SubSeq(d.files, 1, Len(c.files)) = c.files

\* C5: when find-first and the next N-1 find-next are answered with status
\* 0 and the N-th find-next with a nonzero status, listFiles has collected
\* exactly N entries, in the order of the responses, sends exactly one
\* close-handle command, after the last find-next, and returns those N.
C5_ListsInDeviceOrder ==
    /\ [](\A p \in callers : proc[p].op = "listFiles" => C5_Listing(proc[p]))
    /\ [][\A p \in callers :
            (proc[p].op = "listFiles" /\ Running(proc[p]))
                => C5_Appends(proc[p], proc'[p])]_vars

C5_Witness ==
    \E p \in callers :
        /\ proc[p].op = "listFiles"
        /\ HasReturned(proc[p])
        /\ Len(proc[p].outcome.value) = 2
        /\ proc[p].outcome.value[1] # proc[p].outcome.value[2]
        /\ Len(WithOpCode(proc[p].sent, 135)) = 2

\* ---------------------------------------------------------------- C6
Payload(cmd) == SubSeq(cmd, 4, Len(cmd))
RECURSIVE Concat(_)
Concat(seqs) == IF seqs = <<>> THEN <<>> ELSE Head(seqs) \o Concat(Tail(seqs))
\* the data payloads of the write commands, in send order
WritePayloads(c) ==
    [k \in 1..Len(WithOpCode(c.sent, 131)) |-> Payload(WithOpCode(c.sent, 131)[k])]
\* uploadFile has left its write loop without an error of a write
WriteLoopOver(c) ==
    \/ c.pc = "upclose_send"
    \/ WithOpCode(c.sent, 132) # <<>>
    \/ HasReturned(c)
    \/ Failed(c, "TypeError")
    \/ Failed(c, "UploadFailed")

\* C6: the payloads of the write commands of an upload, concatenated in
\* send order, are a prefix of the file content and, once the write loop is
\* over, the whole content; every payload has at most 61 bytes and every
\* payload but the last exactly 61.
C6_ChunksReassemble ==
    \A p \in callers :
        LET c == proc[p]
            w == WritePayloads(c)
        IN  c.op \in Uploads
            => /\ \A k \in 1..Len(w) :
                     /\ Len(w[k]) <= 61
                     /\ k < Len(w) => Len(w[k]) = 61
               /\ Len(Concat(w)) <= Len(c.file.content)
               /\ Concat(w) = SubSeq(c.file.content, 1, Len(Concat(w)))
               /\ WriteLoopOver(c) => Concat(w) = c.file.content

C6_Witness ==
    \E p \in callers :
        /\ proc[p].op \in Uploads
        /\ HasReturned(proc[p])
        /\ Len(proc[p].file.content) = 2 * 61
        /\ Len(WritePayloads(proc[p])) = 2

\* ---------------------------------------------------------------- C7
\* C7: a setBrickName(name) that succeeded with a name of at most 15
\* characters has left the brick with a name field that reads back as
\* `name`, and getDeviceInfo returns what the brick's name field reads as
\* (the 15 bytes without NUL).
C7_NameRoundTrip ==
    \A p \in callers :
        LET c == proc[p] IN
        /\ (c.op = "setBrickName" /\ HasReturned(c) /\ Len(c.name) <= 15)
              => StripNul(brickName) = c.name
        /\ (c.op = "getDeviceInfo" /\ HasReturned(c))
              => c.outcome.value.nxtName = StripNul(brickName)

\* ---------------------------------------------------------------- C8
\* in an upload, the response to the stop-program command has been read
StopAnswered(c) ==
    /\ c.op \in Uploads
    /\ c.sent # <<>>
    /\ Last(c.sent) = CmdStopProgram
    /\ c.received = Len(c.sent)
\* in an upload, the response to the delete command has been read
DeleteAnswered(c) ==
    /\ c.op \in Uploads
    /\ c.sent # <<>>
    /\ OpCode(Last(c.sent)) = 133
    /\ c.received = Len(c.sent)

\* the transport refused the transfer of the step the caller had reached
LinkFailed(c) ==
    /\ HasThrown(c)
    /\ c.outcome.error \in {"TransportError", "NotConnected"}
    /\ c.outcome.statusCode = NoStatusCode

\* C8: in an upload, a stop-program status of 0 or 236 lets the upload go on
\* to the delete step and a delete status of 0 or 135 lets it go on to the
\* open-linear-write step (where only the transport can still stop it); any
\* other status at either step ends the upload with an error whose
\* statusCode is that status, and an upload that ended so has sent no
\* open-linear-write command.
C8_BenignStatusesAbsorbed ==
    \A p \in callers :
        LET c == proc[p]
            s == Byte(c.last, 2)
        IN  /\ StopAnswered(c) =>
                 IF s \in {0, 236}
                 THEN c.fn = "deleteFile" /\ (c.pc = "gfv_send" \/ LinkFailed(c))
                 ELSE Failed(c, "StopFailed") /\ c.outcome.statusCode = s
            /\ DeleteAnswered(c) =>
                 IF s \in {0, 135}
                 THEN c.fn = "uploadFile" /\ (c.pc = "open_send" \/ LinkFailed(c))
                 ELSE Failed(c, "DeleteFailed") /\ c.outcome.statusCode = s
            /\ (c.op \in Uploads /\ HasThrown(c)
                    /\ c.outcome.error \in {"StopFailed", "DeleteFailed"})
                 => WithOpCode(c.sent, 137) = <<>>

C8_Witness ==
    \E p \in callers :
        /\ DeleteAnswered(proc[p])
        /\ Byte(proc[p].last, 2) = 135
        /\ proc[p].pc = "open_send"
        /\ Commands(proc[p].sent, 0, 1) # <<>>

\* ---------------------------------------------------------------- C9
\* stopProgram / deleteFile, called directly, has read the response to its
\* command
DirectAnswered(c) ==
    /\ c.op \in {"stopProgram", "deleteFile"}
    /\ c.sent # <<>>
    /\ Last(c.sent) # CmdGetFirmwareVersion
    /\ c.received = Len(c.sent)

\* C9: stopProgram and deleteFile fail with an error whose statusCode is
\* the status byte of the response whenever that byte is not 0, whatever its
\* value, and return when it is 0.
C9_EveryStatusSurfaced ==
    \A p \in callers :
        LET c == proc[p]
            s == Byte(c.last, 2)
        IN  DirectAnswered(c) =>
                IF s = 0
                THEN HasReturned(c)
                ELSE HasThrown(c) /\ c.outcome.statusCode = s

C9_Witness ==
    \E p \in callers :
        /\ DirectAnswered(proc[p])
        /\ proc[p].op = "stopProgram"
        /\ HasThrown(proc[p])
        /\ proc[p].outcome.statusCode = 189

\* --------------------------------------------------------------- C10
GuardedOperations ==
    {"getFirmwareVersion", "getDeviceInfo", "setBrickName", "stopProgram",
     "listFiles", "deleteFile", "uploadFile", "uploadProgram"}

\* C10: every public operation but connect and checkConnection, invoked
\* while no connection was established, fails with NotConnected and sends
\* nothing, whatever its arguments.
C10_NotConnectedFails ==
    \A p \in callers :
        LET c == proc[p] IN
        (connectedDevice = "undefined" /\ c.op \in GuardedOperations)
            => /\ Failed(c, "NotConnected")
               /\ c.sent = <<>>

\* --------------------------------------------------------------- C11
GatedOperations == {"setBrickName", "stopProgram", "deleteFile", "listFiles", "uploadFile"}

OpenIndex(c) == Len(Asked(c.sent)) - Len(Commands(c.sent, 1, 131)) - Len(Closes(c))

\* an upload has read a status-0 response to its open-linear-write command
\* and so holds the handle c.handle
WriteHandleObtained(c) ==
    /\ c.op \in Uploads
    /\ WithOpCode(c.sent, 137) # <<>>
    /\ c.received >= OpenIndex(c)
    /\ ~Failed(c, "OpenFailed")

\* listFiles has just read a status-0 response to find-first, or has
\* returned, and so holds the handle c.handle
FindHandleObtained(c) ==
    /\ c.op = "listFiles"
    /\ WithOpCode(c.sent, 134) # <<>>
    /\ \/ c.received = 2 /\ Byte(c.last, 2) = 0
       \/ HasReturned(c)

\* C12: an operation that obtained a handle from open-linear-write or
\* find-first never sends more than one close-handle command and, when it
\* has completed (by return or by error) on a transport that still works,
\* has sent exactly one, for that handle.
C12_HandleClosedOnce ==
    \A p \in callers :
        LET c == proc[p] IN
        (WriteHandleObtained(c) \/ FindHandleObtained(c))
            => /\ Len(Closes(c)) <= 1
               /\ (Done(c) /\ usbDevice = "ready") => Closes(c) = <<CmdClose(c.handle)>>

\* --------------------------------------------------------------- C13
\* listFiles has read the response to find-first and sent no find-next yet
FindFirstAnswered(c) ==
    /\ c.op = "listFiles"
    /\ c.sent = <<CmdGetFirmwareVersion, CmdFindFirst>>
    /\ c.received = 2

\* C13: when the response to find-first has a nonzero status, listFiles
\* has failed with an error whose statusCode is that status, has taken no
\* FileInfo from that response, and (having ended) sends no find-next.
C13_FindFirstErrorSurfaced ==
    \A p \in callers :
        LET c == proc[p] IN
        (FindFirstAnswered(c) /\ Byte(c.last, 2) # 0)
            => /\ HasThrown(c)
               /\ c.outcome.statusCode = Byte(c.last, 2)
               /\ c.files = <<>>

\* --------------------------------------------------------------- C14
\* getFirmwareVersion / getDeviceInfo, called directly, has read its response
QueryAnswered(c) ==
    /\ c.op \in {"getFirmwareVersion", "getDeviceInfo"}
    /\ c.received = 1

\* C14: when the response getFirmwareVersion or getDeviceInfo reads has a
\* nonzero status, the call returns nothing decoded from it and fails with
\* an error whose statusCode is that status.
C14_StatusCheckedBeforeDecode ==
    \A p \in callers :
        LET c == proc[p] IN
        (QueryAnswered(c) /\ Byte(c.last, 2) # 0)
            => /\ HasThrown(c)
               /\ c.outcome.statusCode = Byte(c.last, 2)

\* --------------------------------------------------------------- C15
\* the write commands of an upload, in send order
Writes(c) == WithOpCode(c.sent, 131)

\* an upload has read the response to its with-response write
FinalWriteAnswered(c) ==
    /\ c.op \in Uploads
    /\ c.sent # <<>>
    /\ OpCode(Last(c.sent)) = 131
    /\ OpClass(Last(c.sent)) = 1
    /\ c.received = Len(Asked(c.sent))

\* C15: in an upload, a write command has class 0x01 exactly when it
\* carries the end of the content and class 0x81 otherwise; no receive is
\* made for a class-0x81 write (the call never receives more often than it
\* sent response-required commands, and waits in _write's receive only
\* after the class-0x01 write); a nonzero status in that write's response
\* ends the upload with an error and without a close, status 0 lets it go
\* on to the close.
C15_OnlyFinalWriteAnswered ==
    \A p \in callers :
        LET c == proc[p]
            w == Writes(c)
        IN  c.op \in Uploads
            => /\ \A k \in 1..Len(w) :
                     OpClass(w[k]) =
                        IF k = Len(w) /\ Concat(WritePayloads(c)) = c.file.content
                        THEN 1 ELSE 129
               /\ c.received <= Len(Asked(c.sent))
               /\ c.pc = "write_recv" =>
                     /\ Last(c.sent) = Last(w)
                     /\ OpClass(Last(w)) = 1
               /\ FinalWriteAnswered(c) =>
                     IF Byte(c.last, 2) # 0
                     THEN Failed(c, "WriteFailed") /\ Closes(c) = <<>>
                     ELSE c.pc = "upclose_send" \/ LinkFailed(c)

\* an upload of three chunks that returned
C15_Witness ==
    \E p \in callers :
        /\ proc[p].op \in Uploads
        /\ HasReturned(proc[p])
        /\ Len(Writes(proc[p])) = 3
        /\ OpClass(Writes(proc[p])[2]) = 129
        /\ OpClass(Writes(proc[p])[3]) = 1

\* --------------------------------------------------------------- C16
\* the commands of a call other than the firmware-version command
Work(c) == SelectSeq(c.sent, LAMBDA cmd : cmd # CmdGetFirmwareVersion)

\* the step of the upload algorithm a command belongs to
UploadStep(cmd) ==
    CASE cmd = CmdStopProgram -> 1
      [] OpCode(cmd) = 133 -> 2
      [] OpCode(cmd) = 137 -> 3
      [] OpCode(cmd) = 131 -> 4
      [] OpCode(cmd) = 132 -> 5
      [] OTHER -> 0

\* an upload has read the response to its own firmware-version query (the
\* one after the probe) and sent nothing since
FirmwareAnswered(c) ==
    /\ c.op \in Uploads
    /\ c.sent = <<CmdGetFirmwareVersion, CmdGetFirmwareVersion>>
    /\ c.received = 2

\* C16: an upload that read a firmware major version other than 1 has
\* failed with UnsupportedFirmware, having sent nothing but the two
\* firmware-version commands; the other commands of an upload come in the
\* order stop-program (when asked for), delete, open-linear-write, writes,
\* close, each single step at most once and none without the one before.
C16_FirmwareThenOrder ==
    \A p \in callers :
        LET c == proc[p]
            w == Work(c)
            Has(n) == \E k \in 1..Len(w) : UploadStep(w[k]) = n
        IN  c.op \in Uploads
            => /\ (FirmwareAnswered(c) /\ FirmwareVersion(c.last).majorFirmware # 1)
                     => Failed(c, "UnsupportedFirmware")
               /\ Failed(c, "UnsupportedFirmware") => w = <<>>
               /\ \A k \in 1..Len(w) : UploadStep(w[k]) \in 1..5
               /\ \A j, k \in 1..Len(w) :
                     j < k => /\ UploadStep(w[j]) <= UploadStep(w[k])
                              /\ UploadStep(w[j]) = UploadStep(w[k]) => UploadStep(w[k]) = 4
               /\ Has(1) <=> (c.stopProgram /\ w # <<>>)
               /\ Has(3) => Has(2)
               /\ Has(4) => Has(3)
               /\ Has(5) => Has(4)

C16_Witness ==
    \E p \in callers :
        /\ FirmwareAnswered(proc[p])
        /\ FirmwareVersion(proc[p].last).majorFirmware = 2
        /\ Failed(proc[p], "UnsupportedFirmware")

\* --------------------------------------------------------------- C17
\* the 20-byte file name field of a delete or open-linear-write command
NameField(cmd) == SubSeq(cmd, 3, 22)

\* C17: in an upload, the delete command carries the same file name as the
\* open-linear-write command.
C17_DeletesTheTarget ==
    \A p \in callers :
        LET c == proc[p] IN
        (c.op \in Uploads /\ WithOpCode(c.sent, 137) # <<>>)
            => /\ WithOpCode(c.sent, 133) # <<>>
               /\ NameField(Last(WithOpCode(c.sent, 133)))
                     = NameField(Last(WithOpCode(c.sent, 137)))

\* --------------------------------------------------------------- C18
\* v is the unsigned little-endian value of the bytes b0..b3 (stated by
\* parts, so that no term exceeds the range of the model's integers)
IsUnsigned32(v, b0, b1, b2, b3) ==
    /\ v >= 0
    /\ v \div 16777216 = b3
    /\ v % 16777216 = b0 + 256 * b1 + 65536 * b2

\* C18: the 32-bit fields getDeviceInfo and listFiles decode from a
\* response are the unsigned little-endian values of their four bytes.
C18_UnsignedDecode ==
    \A p \in callers :
        LET c == proc[p]
            d == c.last
        IN  /\ (c.op = "getDeviceInfo" /\ HasReturned(c)) =>
                  /\ IsUnsigned32(c.outcome.value.btSignalStrength,
                                  Byte(d, 25), Byte(d, 26), Byte(d, 27), Byte(d, 28))
                  /\ IsUnsigned32(c.outcome.value.freeUserFlash,
                                  Byte(d, 29), Byte(d, 30), Byte(d, 31), Byte(d, 32))
            /\ (c.op = "listFiles" /\ c.pc = "fn_send") =>
                  IsUnsigned32(Last(c.files).size,
                               Byte(d, 24), Byte(d, 25), Byte(d, 26), Byte(d, 27))

\* --------------------------------------------------------------- C19
\* C19: when connect has failed, no transport remains installed; and while
\* a transport is installed whose connect procedure has not succeeded,
\* every other operation has ended at once with NotConnected, without
\* going on to a send.
C19_FailedConnectDisconnects ==
    \A p \in callers :
        LET c == proc[p] IN
        /\ (c.op = "connect" /\ HasThrown(c)) => connectedDevice = "undefined"
        /\ (c.op \in GuardedOperations /\ connectedDevice = "usb"
                /\ usbDevice \in {"null", "unopened"})
              => /\ Failed(c, "NotConnected")
                 /\ c.sent = <<>>

\* --------------------------------------------------------------- C20
\* the 20-byte name field of a find response, offsets 4..23
FindNameField(data) == ResponseSlice(data, 4, 24)

\* C20: the entry listFiles takes from a find-first / find-next response
\* with status 0 has as its name the whole 20-byte name field of that
\* response without its NUL bytes.
C20_FullNameField ==
    \A p \in callers :
        LET c == proc[p] IN
        (c.op = "listFiles" /\ c.pc = "fn_send" /\ Byte(c.last, 2) = 0)
            => Last(c.files).name = StripNul(FindNameField(c.last))

\* --------------------------------------------------------------- C21
\* the number of _write calls uploadFile makes for n bytes: ceil(n / 61)
WritesFor(n) == (n + Stride - 1) \div Stride

\* the most commands an operation other than listFiles sends
MostCommands(c) ==
    CASE c.op \in Uploads -> 8 + WritesFor(Len(c.file.content))
      [] c.op \in {"setBrickName", "stopProgram", "deleteFile"} -> 2
      [] c.op \in {"getFirmwareVersion", "getDeviceInfo", "checkConnection"} -> 1
      [] OTHER -> 0

\* listFiles is in or behind its find-next loop
InFindLoop(c) == c.op = "listFiles" /\ WithOpCode(c.sent, 134) # <<>> /\ c.received >= 2

\* the bounds of C21 on one caller: an operation other than listFiles sends
\* a bounded number of commands, an upload that returned has made
\* ceil(length / 61) writes; listFiles leaves its loop (to the close, or by
\* returning) only when the find-next response it read last had a nonzero
\* status
C21_Bounded(c) ==
    /\ c.op # "listFiles" => Len(c.sent) <= MostCommands(c)
    /\ c.op \in Uploads =>
          /\ Len(Writes(c)) <= WritesFor(Len(c.file.content))
          /\ HasReturned(c) => Len(Writes(c)) = WritesFor(Len(c.file.content))
    /\ (InFindLoop(c) /\ (Closes(c) # <<>> \/ c.pc = "lsclose_send" \/ HasReturned(c)))
          => /\ WithOpCode(c.sent, 135) # <<>>
             /\ c.pc = "lsclose_send" => Byte(c.last, 2) # 0

\* a step of listFiles that reads a find-next response with status 0 goes
\* back to sending find-next, with no close sent
C21_LoopsOnZero(c, d) ==
    (c.op = "listFiles" /\ c.pc = "fn_recv" /\ d.received = c.received + 1
        /\ Byte(d.last, 2) = 0)
        => d.pc = "fn_send" /\ Closes(d) = <<>>

\* C21: with a transport that answers every receive, every operation but
\* connect that was started comes to its end (listFiles because the brick
\* of the model answers some find-next with a nonzero status); listFiles
\* ends its loop only on a find-next response with a nonzero status and on
\* status 0 always sends the next find-next without closing, so that it
\* never ends while every find-next is answered with 0; every other
\* operation sends a bounded number of commands, uploadFile
\* ceil(length / 61) writes.
C21_Termination ==
    /\ \A p \in Callers :
          (Running(proc[p]) /\ proc[p].op # "connect") ~> Done(proc[p])
    /\ [](\A p \in Callers : C21_Bounded(proc[p]))
    /\ [][\A p \in Callers : C21_LoopsOnZero(proc[p], proc'[p])]_vars

\* listFiles returned after a find-next answered 0 and one answered nonzero
C21_Witness ==
    \E p \in callers :
        /\ proc[p].op = "listFiles"
        /\ HasReturned(proc[p])
        /\ Len(WithOpCode(proc[p].sent, 135)) = 2
        /\ Byte(proc[p].last, 1) = 132

====
